---- MODULE Spec2Model ----
(***************************************************************************)
(* Account directory of alfred-rs: the PostgreSQL users repository         *)
(* (users + user_infos rows written inside one transaction), the users     *)
(* service on top of it, and the HTTP handlers with the token gate.        *)
(*                                                                         *)
(* Strings are sequences of one-character strings, so that trimming,       *)
(* lower-casing and parsing are computed.  The Russian role names of the   *)
(* source are transliterated to ASCII (Vladelec, Administrator, Sotrudnik, *)
(* Gost).  Every request is handled by a worker; a worker step runs the    *)
(* code between two database calls, the only suspension points.            *)
(***************************************************************************)
EXTENDS Integers, Sequences, FiniteSets, TLC

(* ------------------------------ bounds --------------------------------- *)
\* identifiers the store can generate, and write transactions it can begin
MaxIds == 2
MaxClock == 3

\* request-handling tasks (each draws its own connection from the pool)
Workers == {"w1", "w2"}
Ids == 1..MaxIds

(* ------------------------------ strings -------------------------------- *)
UpperChars == <<"A","B","C","D","E","F","G","H","I","J","K","L","M",
                "N","O","P","Q","R","S","T","U","V","W","X","Y","Z">>
LowerChars == <<"a","b","c","d","e","f","g","h","i","j","k","l","m",
                "n","o","p","q","r","s","t","u","v","w","x","y","z">>
DigitChars == {"0","1","2","3","4","5","6","7","8","9"}
WhiteChars == {" ", "\t"}

SeqRange(s) == {s[i] : i \in 1..Len(s)}

LowerOf == [c \in SeqRange(UpperChars) |->
               LowerChars[CHOOSE i \in 1..26 : UpperChars[i] = c]]

LowerChar(c) == IF c \in DOMAIN LowerOf THEN LowerOf[c] ELSE c

to_lowercase(s) == [i \in 1..Len(s) |-> LowerChar(s[i])]

trim(s) ==
    LET keep == {i \in 1..Len(s) : s[i] \notin WhiteChars}
    IN  IF keep = {} THEN <<>>
        ELSE LET lo == CHOOSE i \in keep : \A j \in keep : i <= j
                 hi == CHOOSE i \in keep : \A j \in keep : j <= i
             IN  SubSeq(s, lo, hi)

\* str::contains on word sequences (used on error messages)
contains(s, pat) ==
    \E i \in 0..(Len(s) - Len(pat)) : SubSeq(s, i + 1, i + Len(pat)) = pat

(* ------------------------------- roles --------------------------------- *)
Roles == {"Owner", "Admin", "Employee", "Guest"}
DefaultRole == "Guest"

is_admin(role) == role \in {"Owner", "Admin"}

\* Display / AsRef<str> of UserRole
RoleName(role) ==
    CASE role = "Owner"    -> <<"V","l","a","d","e","l","e","c">>
      [] role = "Admin"    -> <<"A","d","m","i","n","i","s","t","r","a","t","o","r">>
      [] role = "Employee" -> <<"S","o","t","r","u","d","n","i","k">>
      [] OTHER             -> <<"G","o","s","t">>

NoRole == "InvalidUserRole"

\* a parse that compares the string as written, letter case included
RoleFromStr_exact(s) ==
    CASE s \in {<<"v","l","a","d","e","l","e","c">>, <<"o","w","n","e","r">>} -> "Owner"
      [] s \in {<<"a","d","m","i","n","i","s","t","r","a","t","o","r">>,
                <<"a","d","m","i","n">>} -> "Admin"
      [] s \in {<<"s","o","t","r","u","d","n","i","k">>,
                <<"e","m","p","l","o","y","e","e">>} -> "Employee"
      [] s \in {<<"g","o","s","t">>, <<"g","u","e","s","t">>} -> "Guest"
      [] OTHER -> NoRole

\* FromStr of UserRole: NoRole stands for Err(InvalidUserRole)
RoleFromStr(s) ==
    LET l == to_lowercase(s)
    IN  CASE l \in {<<"v","l","a","d","e","l","e","c">>, <<"o","w","n","e","r">>} -> "Owner"
          [] l \in {<<"a","d","m","i","n","i","s","t","r","a","t","o","r">>,
                    <<"a","d","m","i","n">>} -> "Admin"
          [] l \in {<<"s","o","t","r","u","d","n","i","k">>,
                    <<"e","m","p","l","o","y","e","e">>} -> "Employee"
          [] l \in {<<"g","o","s","t">>, <<"g","u","e","s","t">>} -> "Guest"
          [] OTHER -> NoRole

(* ---------------------------- credentials ------------------------------ *)
\* SaltString::generate(&mut OsRng): a salt no earlier call has drawn; the
\* n-th transaction of the store draws the n-th salt
FreshSalt(n) == <<"salt", n>>

\* a hash written in a form PasswordHash::new does not parse
hash_password_plain(password, salt) == [alg |-> "", salt |-> salt, digest |-> <<salt, password>>]

\* the PHC string: algorithm, salt and digest; the digest of (salt, password)
\* is modelled as the pair itself
hash_password(password, salt) ==
    [alg |-> "argon2id", salt |-> salt, digest |-> <<salt, password>>]

\* a verification that accepts whatever is offered
verify_password_any(hash, password) == [err |-> FALSE, ok |-> TRUE]

\* AppResult<bool>: err is set when the stored hash does not parse (CryptoError)
\* and is_ok() turns a hash of another algorithm into Ok(false)
verify_password(hash, password) ==
    IF hash.alg = ""
    THEN [err |-> TRUE, ok |-> FALSE]
    ELSE [err |-> FALSE, ok |-> hash.alg = "argon2id" /\ hash.digest = <<hash.salt, password>>]

(* --------------------------- input validation -------------------------- *)
\* #[validate(email)]: one "@" with a non-empty local part and domain,
\* no white space
IsEmail(s) ==
    /\ Cardinality({i \in 1..Len(s) : s[i] = "@"}) = 1
    /\ Len(s) >= 3
    /\ s[1] # "@"
    /\ s[Len(s)] # "@"
    /\ SeqRange(s) \cap WhiteChars = {}

\* the grave accent cannot be written in a string of this language: "backtick"
SpecialChars == {"!","@","#","$","%","^","&","*","(",")","_","-","+","=","<",">",
                 "?","/","{","}","~","|","[","]","\"","\\","'","backtick"}

is_special_char(c) == c \in SpecialChars

CommonPasswords ==
    { <<"p","a","s","s","w","o","r","d">>, <<"1","2","3","4","5","6","7","8">>,
      <<"q","w","e","r","t","y">>, <<"a","d","m","i","n","1","2","3">>,
      <<"l","e","t","m","e","i","n">>, <<"w","e","l","c","o","m","e">>,
      <<"m","o","n","k","e","y">>, <<"s","u","n","s","h","i","n","e">>,
      <<"p","a","s","s","w","o","r","d","1">>, <<"1","2","3","1","2","3">>,
      <<"1","1","1","1","1","1","1","1">>, <<"a","b","c","d","1","2","3","4">>,
      <<"t","r","u","s","t","n","o","1">>, <<"d","r","a","g","o","n">>,
      <<"b","a","s","e","b","a","l","l">> }

\* the set of rules a password breaks (empty: accepted by the custom validator)
validate_password(password) ==
    LET cs == SeqRange(password)
    IN  (IF " " \in cs THEN {"spaces"} ELSE {})
        \cup (IF to_lowercase(password) \in CommonPasswords THEN {"common"} ELSE {})
        \cup (IF cs \cap DigitChars = {} THEN {"digit"} ELSE {})
        \cup (IF cs \cap SeqRange(UpperChars) = {} THEN {"upper"} ELSE {})
        \cup (IF cs \cap SeqRange(LowerChars) = {} THEN {"lower"} ELSE {})
        \cup (IF \A c \in cs : ~is_special_char(c) THEN {"special"} ELSE {})

MinPasswordLen == 8
MaxPasswordLen == 64

\* SignupData as derived Validate: email, password length, custom password rule
SignupDataValid(email, password) ==
    /\ IsEmail(email)
    /\ Len(password) >= MinPasswordLen
    /\ Len(password) <= MaxPasswordLen
    /\ validate_password(password) = {}

\* SignupData::try_new: a record with ok = FALSE carries the error kind
SignupData_try_new(email, password, roleStr) ==
    LET role == RoleFromStr(roleStr)
        e    == to_lowercase(trim(email))
    IN  IF role = NoRole
        THEN [ok |-> FALSE, err |-> "InvalidUserRole", email |-> e,
              password |-> password, role |-> DefaultRole]
        ELSE IF ~SignupDataValid(e, password)
        THEN [ok |-> FALSE, err |-> "ValidationErrors", email |-> e,
              password |-> password, role |-> role]
        ELSE [ok |-> TRUE, err |-> "", email |-> e, password |-> password, role |-> role]

\* SigninData::try_new / TryFrom<(&str, &str)>: normalises and validates the email
SigninData_try_new(email, password) ==
    LET e == to_lowercase(trim(email))
    IN  IF ~IsEmail(e)
        THEN [ok |-> FALSE, err |-> "ValidationErrors", email |-> e, password |-> password]
        ELSE [ok |-> TRUE, err |-> "", email |-> e, password |-> password]

(* ------------------------------ identifiers ---------------------------- *)
IdDigits == <<"1","2","3","4","5","6","7","8","9">>

\* Uuid::to_string
IdToStr(n) == <<IdDigits[n]>>

UuidErr == 0

\* a parse that reads a malformed string as the first identifier
parse_str_lenient(s) ==
    IF Len(s) = 1 /\ \E n \in 1..9 : IdDigits[n] = s[1]
    THEN CHOOSE n \in 1..9 : IdDigits[n] = s[1]
    ELSE 1

\* Uuid::parse_str: the identifier, or UuidErr for a malformed string
parse_str(s) ==
    IF Len(s) = 1 /\ \E n \in 1..9 : IdDigits[n] = s[1]
    THEN CHOOSE n \in 1..9 : IdDigits[n] = s[1]
    ELSE UuidErr


(* ------------------------------- values -------------------------------- *)
\* Option<T>: None is <<>>, Some(v) is <<v>>
None == <<>>
Some(v) == <<v>>

NoHash == [alg |-> "", salt |-> "", digest |-> <<>>]

EmptyInfo == [first_name |-> None, middle_name |-> None, last_name |-> None,
              username |-> None, avatar_url |-> None, bio |-> None]

\* User::default(); also stands for "no user" in a response
NoUser == [user_id |-> 0, email |-> <<>>, password_hash |-> NoHash, role |-> DefaultRole,
           info |-> EmptyInfo, created |-> 0, updated |-> 0]

\* a row of table users / user_infos; user_id = 0 stands for "no such row"
NoRow == [user_id |-> 0, email |-> <<>>, password_hash |-> NoHash, role |-> <<>>,
          created |-> 0, updated |-> 0]
NoInfoRow == [user_id |-> 0, info |-> EmptyInfo, created |-> 0, updated |-> 0]

\* From<UserInfoDTO> for UserInfo
UserInfoFrom(idto) == idto.info

\* From<(UserDTO, UserInfo)> for User
UserFrom(udto, info) ==
    [user_id |-> udto.user_id, email |-> udto.email, password_hash |-> udto.password_hash,
     role |-> IF RoleFromStr(udto.role) = NoRole THEN DefaultRole ELSE RoleFromStr(udto.role),
     info |-> info, created |-> udto.created, updated |-> udto.updated]

(* ------------------------------- inputs -------------------------------- *)
E_a  == <<"a","@","x">>
E_A  == <<"A","@","x">>
E_sp == <<" ","a","@","x"," ">>
E_b  == <<"b","@","x">>
RawEmails == {E_a, E_A, E_sp, E_b}

P_strong == <<"S","t","r","0","n","g","!","P","a","s","s">>
P_wrong  == <<"w","r","o","n","g">>
Passwords == {P_strong, P_wrong}

RoleInputs == {None, Some(<<"A","D","M","I","N">>), Some(<<"b","o","s","s">>)}

JohnInfo == [EmptyInfo EXCEPT !.first_name = Some(<<"J","o","h","n">>),
                              !.username = Some(<<"j","d">>)]

\* UserToUpdate {email, role, info}: public fields, deserialised as sent
NoUpd == [email |-> <<>>, role |-> DefaultRole, info |-> EmptyInfo]
Updates == { [email |-> E_A,  role |-> "Admin", info |-> JohnInfo],
             [email |-> E_sp, role |-> "Guest", info |-> EmptyInfo] }

IdStrs == {IdToStr(i) : i \in Ids} \cup {<<"z">>}

(* -------------------------------- state -------------------------------- *)
VARIABLES
    users,    \* committed rows of table users, by user_id
    infos,    \* committed rows of table user_infos, by user_id
    nextId,   \* the next identifier the store generates
    clock,    \* the store's time; NOW() is the time the transaction began
    pc,       \* where each worker is
    call,     \* the request a worker handles and its arguments
    tx,       \* a worker's open transaction: its uncommitted writes
    loc,      \* a worker's local variables
    res,      \* the result a worker returns
    tokens,   \* the session tokens issued so far
    probe,    \* a filter builder and a credential under test, outside any request
    bootstrap \* the identity-bootstrap service: its users table and its callers

vars == <<users, infos, nextId, clock, pc, call, tx, loc, res, tokens, probe, bootstrap>>

NoTx == [active |-> FALSE, now |-> 0, id |-> 0,
         ust |-> "none", urow |-> NoRow, ist |-> "none", irow |-> NoInfoRow]

\* a bearer token: TokenClaims {sub, iat, exp} and whether the signature is
\* the one the server's secret produces
NoToken == [present |-> FALSE, sub |-> <<>>, iat |-> 0, exp |-> 0, sig |-> ""]

\* Query<Filter> of list_handler: four optional strings
NoQuery == [page |-> None, per_page |-> None, role |-> None, q |-> None]

NoFilter == [page |-> [hi |-> 0, lo |-> 0], per_page |-> 0, role |-> None, search_string |-> None]

NoCall == [entry |-> "none", route |-> "none", op |-> "none", token |-> NoToken,
           idstr |-> <<>>, email |-> <<>>, password |-> <<>>, rolestr |-> None,
           role |-> DefaultRole,
           id |-> 0, upd |-> NoUpd, query |-> NoQuery, filter |-> NoFilter]

\* a task's locals; snap records the profile row as committed at the moment
\* the account row was read
NoLoc == [udto |-> NoRow, idto |-> NoInfoRow, snap |-> NoInfoRow, actor |-> NoUser,
          user |-> NoUser, users |-> <<>>]

\* a response; msg is the text a store error carries, undone the id whose
\* uncommitted writes the dropped transaction discarded (0: it had none)
NoRes == [ok |-> FALSE, err |-> "", msg |-> <<>>, user |-> NoUser, status |-> 0,
          users |-> <<>>, total |-> 0, token |-> NoToken, undone |-> 0]

\* UsersFilterBuilder::default(): no field set
EmptyBuilder == [page |-> None, per_page |-> None]

\* the objects used outside any request: a filter builder with the last
\* argument each setter was given, whether the setters were then called again
\* with their own output, and the filter built from it; a password, a stored
\* hash and whether hash_password wrote it, the password offered against the
\* hash and the outcome of the verification
NoProbe == [builder |-> EmptyBuilder, args |-> EmptyBuilder, again |-> FALSE, built |-> None,
            password |-> <<>>, hash |-> NoHash, hashed |-> FALSE, offered |-> <<>>,
            verified |-> None]

\* the identity-bootstrap service (crate database): table users keyed by
\* user_id, no row yet
TgIds == {1, 2}
TgNames == {"ann", "bob"}
BootRoles == {"Owner", "Admin", "Employee", "Guest"}
NoEntry == [present |-> FALSE, user_name |-> "", user_role |-> "Guest"]
NoReq == [op |-> "", user_id |-> 0, user_name |-> "", new_role |-> "Guest"]
NoOut == [ok |-> FALSE, role |-> "", err |-> ""]

\* the state of the identity-bootstrap service: its table, and for each caller
\* the request it serves, its position in register_user, the locals user_role
\* and offset of register_user, and the answer
NoBootstrap == [dir |-> [i \in TgIds |-> NoEntry],
                at |-> [w \in Workers |-> "idle"],
                req |-> [w \in Workers |-> NoReq],
                user_role |-> [w \in Workers |-> "Admin"],
                offset |-> [w \in Workers |-> 0],
                out |-> [w \in Workers |-> NoOut]]

Ok(user) == [NoRes EXCEPT !.ok = TRUE, !.user = user, !.status = 200]

\* IntoResponse for AppError
StatusOf(kind) ==
    CASE kind = "EntryNotFound" -> 404
      [] kind \in {"AccessDenied", "EntryAlreadyExists", "InvalidInput", "InvalidCredentials",
                   "InvalidUserRole", "ValidationError", "ValidationErrors"} -> 400
      [] OTHER -> 500

Err(kind) == [NoRes EXCEPT !.err = kind, !.status = StatusOf(kind)]

Init ==
    /\ users = [i \in Ids |-> NoRow]
    /\ infos = [i \in Ids |-> NoInfoRow]
    /\ nextId = 1
    /\ clock = 0
    /\ pc = [w \in Workers |-> "idle"]
    /\ call = [w \in Workers |-> NoCall]
    /\ tx = [w \in Workers |-> NoTx]
    /\ loc = [w \in Workers |-> NoLoc]
    /\ res = [w \in Workers |-> NoRes]
    /\ tokens = {}
    /\ probe = NoProbe
    /\ bootstrap = NoBootstrap


(* ------------------------ the store (PostgreSQL) ------------------------ *)
\* Statements of an open transaction write to tx; COMMIT applies them, a
\* dropped transaction discards them.  Statements run on the pool see only
\* committed rows (READ COMMITTED).  A row another transaction has written
\* is locked until that transaction ends.
IsRow(r) == r.user_id # 0

LockedU(w, id) == \E v \in Workers \ {w} : tx[v].active /\ tx[v].ust # "none" /\ tx[v].id = id
LockedI(w, id) == \E v \in Workers \ {w} : tx[v].active /\ tx[v].ist # "none" /\ tx[v].id = id

\* an index that compares the stored text as it is
EmailKey_exact(e) == e

\* the unique index on users.email compares case-insensitively
EmailKey(e) == to_lowercase(e)

\* a committed row other than id holds the key and no one is changing it
UniqueViolation(w, e, id) ==
    \E j \in Ids \ {id} :
        IsRow(users[j]) /\ EmailKey(users[j].email) = EmailKey(e) /\ ~LockedU(w, j)

\* the key is held, or may come to be held, by a transaction still open
UniqueWait(w, e, id) ==
    \E v \in Workers \ {w} :
        /\ tx[v].active /\ tx[v].ust # "none" /\ tx[v].id # id
        /\ \/ tx[v].ust = "row" /\ EmailKey(tx[v].urow.email) = EmailKey(e)
           \/ IsRow(users[tx[v].id]) /\ EmailKey(users[tx[v].id].email) = EmailKey(e)

DuplicateKeyMsg == <<"error", "returned", "from", "database:", "duplicate", "key", "value",
                     "violates", "unique", "constraint">>
RowNotFoundMsg == <<"no", "rows", "returned">>
ConnectionMsg == <<"connection", "closed">>

\* Display of AppError::DatabaseInternalError
DatabaseInternalError(msg) == <<"Database", "internal", "error:">> \o msg

\* tx.commit(): a committed table after a write (st, row) to the row of id
Committed(tbl, id, st, row, none) ==
    IF st = "row" THEN [tbl EXCEPT ![id] = row]
    ELSE IF st = "del" THEN [tbl EXCEPT ![id] = none]
    ELSE tbl

(* ------------------------------ the service ----------------------------- *)
\* Each operation runs up to its first database call: the worker's next
\* position, its call record and, when it already failed, its result.
Stage(p, c, r) == [pc |-> p, call |-> c, res |-> r]

UsersService_signup(c, email, password, role) ==
    LET r == IF role # None /\ RoleFromStr(role[1]) # NoRole
             THEN RoleFromStr(role[1]) ELSE DefaultRole
        d == SignupData_try_new(email, password, RoleName(r))
        c1 == [c EXCEPT !.op = "signup", !.email = d.email, !.password = d.password,
                        !.rolestr = role, !.role = d.role]
    IN  IF d.ok THEN Stage("begin", c1, NoRes) ELSE Stage("done", c1, Err(d.err))

UsersService_signin(c, email, password) ==
    LET d == SigninData_try_new(email, password)
        c1 == [c EXCEPT !.op = "signin", !.email = d.email, !.password = d.password]
    IN  IF d.ok THEN Stage("verify", c1, NoRes) ELSE Stage("done", c1, Err(d.err))

UsersService_get_user_info(c, email) ==
    LET e == to_lowercase(trim(email))
        c1 == [c EXCEPT !.op = "get_user_info", !.email = e]
    IN  IF IsEmail(e) THEN Stage("find_u", c1, NoRes)
        ELSE Stage("done", c1, Err("ValidationErrors"))

UsersService_get_by_id(c, idstr) ==
    LET id == parse_str(idstr)
        c1 == [c EXCEPT !.op = "get_by_id", !.idstr = idstr, !.id = id]
    IN  IF id = UuidErr THEN Stage("done", c1, Err("UuidError"))
        ELSE Stage("get_u", c1, NoRes)

UsersService_update(c, idstr, upd) ==
    LET id == parse_str(idstr)
        c1 == [c EXCEPT !.op = "update", !.idstr = idstr, !.id = id, !.upd = upd]
    IN  IF id = UuidErr THEN Stage("done", c1, Err("UuidError"))
        ELSE Stage("begin", c1, NoRes)

UsersService_delete(c, idstr) ==
    LET id == parse_str(idstr)
        c1 == [c EXCEPT !.op = "delete", !.idstr = idstr, !.id = id]
    IN  IF id = UuidErr THEN Stage("done", c1, Err("UuidError"))
        ELSE Stage("begin", c1, NoRes)


(* ---------------------------- session tokens --------------------------- *)
\* lifetime of a token (JWTSettings::expires_in); one unit of clock is a minute
ExpiresIn == 1
\* jsonwebtoken's Validation::default() accepts a token up to 60 s after exp
Leeway == 1

\* create_token: claims signed with the server's secret
create_token(user_id, now) ==
    [present |-> TRUE, sub |-> IdToStr(user_id), iat |-> now, exp |-> now + ExpiresIn,
     sig |-> "good"]

\* decode::<TokenClaims>(token, secret, Validation::default()) succeeds
decode(token, now) == token.sig = "good" /\ token.exp + Leeway >= now

\* the gate's (StatusCode::UNAUTHORIZED, Json(ErrorResponse))
Unauthorized == [NoRes EXCEPT !.err = "Unauthorized", !.status = 401]

\* the Extension<User> extractor's rejection when no layer attached a User
MissingExtension == [NoRes EXCEPT !.err = "MissingExtension", !.status = 500]

GatePcs == {"gate_u", "gate_i"}

\* the handler's response to the service's result r; signin_handler and
\* signup_handler issue a token for the account they return
Reply(w, r) ==
    LET issue == call[w].entry = "public" /\ r.ok
        t == create_token(r.user.user_id, clock)
    IN  /\ pc' = [pc EXCEPT ![w] = "done"]
        /\ res' = [res EXCEPT ![w] = IF issue THEN [r EXCEPT !.token = t] ELSE r]
        /\ tokens' = IF issue THEN tokens \cup {t} ELSE tokens

(* ------------------------------- requests ------------------------------- *)
\* a finished request is handed back before anything else happens
Quiet == \A v \in Workers : pc[v] # "done"

Enter(w, st) ==
    /\ pc' = [pc EXCEPT ![w] = st.pc]
    /\ call' = [call EXCEPT ![w] = st.call]
    /\ res' = [res EXCEPT ![w] = st.res]

ServiceCall == [NoCall EXCEPT !.entry = "service"]

\* signups that have not yet drawn their identifier
PendingSignups == Cardinality({v \in Workers : call[v].op = "signup" /\ pc[v] \in {"begin", "ins_u"}})

Signup(w, roles) ==
    /\ UNCHANGED <<probe, bootstrap>>
    /\ pc[w] = "idle" /\ Quiet
    /\ nextId + PendingSignups <= MaxIds
    /\ \E email \in RawEmails, password \in Passwords, role \in roles :
          Enter(w, UsersService_signup(ServiceCall, email, password, role))
    /\ UNCHANGED <<users, infos, nextId, clock, tx, loc, tokens>>

\* c repeated n times
Repeat(c, n) == [i \in 1..n |-> c]

\* passwords around each rule of the policy: accepted ones of 8, 11 and 64
\* characters, one of 7 and one of 65, one with a space and one with a
\* tabulation, one lacking each class of character, and denylist entries
PasswordInputs ==
    { P_strong,
      <<"S","t","r","0","n","g","!","P">>,
      <<"S","t","r","0","n","g","!">>,
      P_strong \o Repeat("a", 53),
      P_strong \o Repeat("a", 54),
      <<"S","t","r","0","n","g","!"," ","P","a","s","s">>,
      <<"S","t","r","0","n","g","!","\t","P","a","s","s">>,
      <<"s","t","r","0","n","g","!","p","a","s","s">>,
      <<"S","T","R","0","N","G","!","P","A","S","S">>,
      <<"S","t","r","o","n","g","!","P","a","s","s">>,
      <<"S","t","r","0","n","g","1","P","a","s","s">>,
      <<"p","a","s","s","w","o","r","d","1">>,
      <<"P","a","s","s","w","o","r","d","1">> }

\* role strings: absent, names of the four roles in either language and any
\* letter case, and strings that name no role
RoleStrInputs ==
    { None, Some(<<"A","D","M","I","N">>), Some(<<"o","w","n","e","r">>),
      Some(<<"S","o","t","r","u","d","n","i","k">>), Some(<<"G","u","e","s","t">>),
      Some(<<"b","o","s","s">>), Some(<<>>) }

\* UsersService::signup called with any of them
SignupWide(w) ==
    /\ UNCHANGED <<probe, bootstrap>>
    /\ pc[w] = "idle" /\ Quiet
    /\ nextId + PendingSignups <= MaxIds
    /\ \E email \in {E_a, E_sp, E_b, <<"a">>}, password \in PasswordInputs,
          role \in RoleStrInputs :
          Enter(w, UsersService_signup(ServiceCall, email, password, role))
    /\ UNCHANGED <<users, infos, nextId, clock, tx, loc, tokens>>

Signin(w) ==
    /\ UNCHANGED <<probe, bootstrap>>
    /\ pc[w] = "idle" /\ Quiet
    /\ \E email \in RawEmails, password \in Passwords :
          Enter(w, UsersService_signin(ServiceCall, email, password))
    /\ UNCHANGED <<users, infos, nextId, clock, tx, loc, tokens>>

GetUserInfo(w) ==
    /\ UNCHANGED <<probe, bootstrap>>
    /\ pc[w] = "idle" /\ Quiet
    /\ \E email \in RawEmails : Enter(w, UsersService_get_user_info(ServiceCall, email))
    /\ UNCHANGED <<users, infos, nextId, clock, tx, loc, tokens>>

GetById(w) ==
    /\ UNCHANGED <<probe, bootstrap>>
    /\ pc[w] = "idle" /\ Quiet
    /\ \E idstr \in IdStrs : Enter(w, UsersService_get_by_id(ServiceCall, idstr))
    /\ UNCHANGED <<users, infos, nextId, clock, tx, loc, tokens>>

Update(w) ==
    /\ UNCHANGED <<probe, bootstrap>>
    /\ pc[w] = "idle" /\ Quiet
    /\ \E idstr \in IdStrs, upd \in Updates :
          Enter(w, UsersService_update(ServiceCall, idstr, upd))
    /\ UNCHANGED <<users, infos, nextId, clock, tx, loc, tokens>>

Delete(w) ==
    /\ UNCHANGED <<probe, bootstrap>>
    /\ pc[w] = "idle" /\ Quiet
    /\ \E idstr \in IdStrs : Enter(w, UsersService_delete(ServiceCall, idstr))
    /\ UNCHANGED <<users, infos, nextId, clock, tx, loc, tokens>>

\* the response is delivered and the task ends
Return(w) ==
    /\ UNCHANGED <<probe, bootstrap>>
    /\ pc[w] = "done"
    /\ pc' = [pc EXCEPT ![w] = "idle"]
    /\ call' = [call EXCEPT ![w] = NoCall]
    /\ loc' = [loc EXCEPT ![w] = NoLoc]
    /\ res' = [res EXCEPT ![w] = NoRes]
    /\ UNCHANGED <<users, infos, nextId, clock, tx, tokens>>

(* ------------------------- repository statements ------------------------ *)
\* the repository's error passed on untranslated
MapErr_untranslated(op, kind, msg) == Err(kind)

\* UsersService::signup maps the repository's error; every other operation
\* propagates it with `?`
MapErr(op, kind, msg) ==
    IF op = "signup" /\ kind = "DatabaseInternalError"
          /\ contains(DatabaseInternalError(msg), <<"duplicate", "key">>)
    THEN Err("EntryAlreadyExists")
    ELSE Err(kind)

\* a statement failed: `?` returns, the transaction is dropped (rolled back);
\* the gate answers every failure of its lookup with Unauthorized
Fail(w, kind, msg) ==
    /\ pc' = [pc EXCEPT ![w] = "done"]
    /\ res' = [res EXCEPT ![w] =
                  IF pc[w] \in GatePcs THEN Unauthorized
                  ELSE [MapErr(call[w].op, kind, msg) EXCEPT
                           !.msg = msg,
                           !.undone = IF tx[w].ust # "none" \/ tx[w].ist # "none"
                                      THEN tx[w].id ELSE 0]]
    /\ tx' = [tx EXCEPT ![w] = NoTx]
    /\ UNCHANGED <<users, infos, nextId, clock, call, loc, tokens>>

Goto(w, p) == pc' = [pc EXCEPT ![w] = p]

\* self.pool.begin()
Begin(w) ==
    /\ UNCHANGED <<probe, bootstrap>>
    /\ pc[w] = "begin" /\ Quiet
    /\ clock < MaxClock
    /\ clock' = clock + 1
    /\ tx' = [tx EXCEPT ![w] = [NoTx EXCEPT !.active = TRUE, !.now = clock + 1,
                                           !.id = call[w].id]]
    /\ Goto(w, CASE call[w].op = "signup" -> "ins_u"
                 [] call[w].op = "update" -> "upd_i"
                 [] OTHER -> "del_i")
    /\ UNCHANGED <<users, infos, nextId, call, loc, res, tokens>>

\* INSERT INTO users (email, password_hash, role) ... RETURNING *
UserDTO_create(w) ==
    /\ UNCHANGED <<probe, bootstrap>>
    /\ pc[w] = "ins_u" /\ Quiet
    /\ IF UniqueViolation(w, call[w].email, nextId)
       THEN Fail(w, "DatabaseInternalError", DuplicateKeyMsg)
       ELSE /\ ~UniqueWait(w, call[w].email, nextId)
            /\ tx' = [tx EXCEPT ![w].id = nextId, ![w].ust = "row",
                     ![w].urow = [user_id |-> nextId, email |-> call[w].email,
                                  password_hash |-> hash_password(call[w].password,
                                                                  FreshSalt(tx[w].now)),
                                  role |-> RoleName(call[w].role),
                                  created |-> tx[w].now, updated |-> tx[w].now]]
            /\ nextId' = nextId + 1
            /\ Goto(w, "ins_i")
            /\ UNCHANGED <<users, infos, clock, call, loc, res, tokens>>

\* INSERT INTO user_infos (user_id) ... RETURNING *
UserInfoDTO_create(w) ==
    /\ UNCHANGED <<probe, bootstrap>>
    /\ pc[w] = "ins_i" /\ Quiet
    /\ LET irow == [user_id |-> tx[w].id, info |-> EmptyInfo,
                    created |-> tx[w].now, updated |-> tx[w].now]
       IN  /\ tx' = [tx EXCEPT ![w].ist = "row", ![w].irow = irow]
           /\ loc' = [loc EXCEPT ![w].user = UserFrom(tx[w].urow, UserInfoFrom(irow))]
    /\ Goto(w, "commit")
    /\ UNCHANGED <<users, infos, nextId, clock, call, res, tokens>>

\* the profile statement run on the pool instead of the transaction
UserInfoDTO_update_on_pool(w) ==
    /\ UNCHANGED <<probe, bootstrap>>
    /\ pc[w] = "upd_i" /\ Quiet
    /\ ~LockedI(w, call[w].id)
    /\ IF ~IsRow(infos[call[w].id])
       THEN Fail(w, "EntryNotFound", <<>>)
       ELSE /\ infos' = [infos EXCEPT ![call[w].id].info = call[w].upd.info,
                                      ![call[w].id].updated = tx[w].now]
            /\ tx' = [tx EXCEPT ![w].irow = infos'[call[w].id]]
            /\ Goto(w, "upd_u")
            /\ UNCHANGED <<users, nextId, clock, call, loc, res, tokens>>

\* UPDATE user_infos SET ..., updated = NOW() WHERE user_id = $1 RETURNING *
UserInfoDTO_update(w) ==
    /\ UNCHANGED <<probe, bootstrap>>
    /\ pc[w] = "upd_i" /\ Quiet
    /\ ~LockedI(w, call[w].id)
    /\ IF ~IsRow(infos[call[w].id])
       THEN Fail(w, "EntryNotFound", <<>>)
       ELSE /\ tx' = [tx EXCEPT ![w].ist = "row",
                        ![w].irow = [infos[call[w].id] EXCEPT !.info = call[w].upd.info,
                                                             !.updated = tx[w].now]]
            /\ Goto(w, "upd_u")
            /\ UNCHANGED <<users, infos, nextId, clock, call, loc, res, tokens>>

\* an update that also stamps the account as created anew
UserDTO_update_recreated(w) ==
    /\ UNCHANGED <<probe, bootstrap>>
    /\ pc[w] = "upd_u" /\ Quiet
    /\ ~LockedU(w, call[w].id)
    /\ IF ~IsRow(users[call[w].id])
       THEN Fail(w, "EntryNotFound", <<>>)
       ELSE IF UniqueViolation(w, call[w].upd.email, call[w].id)
       THEN Fail(w, "DatabaseInternalError", DuplicateKeyMsg)
       ELSE /\ ~UniqueWait(w, call[w].upd.email, call[w].id)
            /\ LET urow == [users[call[w].id] EXCEPT !.email = call[w].upd.email,
                                                    !.role = RoleName(call[w].upd.role),
                                                    !.created = tx[w].now,
                                                    !.updated = tx[w].now]
               IN  /\ tx' = [tx EXCEPT ![w].ust = "row", ![w].urow = urow]
                   /\ loc' = [loc EXCEPT ![w].user = UserFrom(urow, UserInfoFrom(tx[w].irow))]
            /\ Goto(w, "commit")
            /\ UNCHANGED <<users, infos, nextId, clock, call, res, tokens>>

\* UPDATE users SET email = $2, role = $3, updated = NOW() WHERE user_id = $1 RETURNING *
UserDTO_update(w) ==
    /\ UNCHANGED <<probe, bootstrap>>
    /\ pc[w] = "upd_u" /\ Quiet
    /\ ~LockedU(w, call[w].id)
    /\ IF ~IsRow(users[call[w].id])
       THEN Fail(w, "EntryNotFound", <<>>)
       ELSE IF UniqueViolation(w, call[w].upd.email, call[w].id)
       THEN Fail(w, "DatabaseInternalError", DuplicateKeyMsg)
       ELSE /\ ~UniqueWait(w, call[w].upd.email, call[w].id)
            /\ LET urow == [users[call[w].id] EXCEPT !.email = call[w].upd.email,
                                                    !.role = RoleName(call[w].upd.role),
                                                    !.updated = tx[w].now]
               IN  /\ tx' = [tx EXCEPT ![w].ust = "row", ![w].urow = urow]
                   /\ loc' = [loc EXCEPT ![w].user = UserFrom(urow, UserInfoFrom(tx[w].irow))]
            /\ Goto(w, "commit")
            /\ UNCHANGED <<users, infos, nextId, clock, call, res, tokens>>

\* the profile row deleted on the pool instead of the transaction
UserInfoDTO_delete_on_pool(w) ==
    /\ UNCHANGED <<probe, bootstrap>>
    /\ pc[w] = "del_i" /\ Quiet
    /\ ~LockedI(w, call[w].id)
    /\ IF ~IsRow(infos[call[w].id])
       THEN Fail(w, "EntryNotFound", <<>>)
       ELSE /\ infos' = [infos EXCEPT ![call[w].id] = NoInfoRow]
            /\ tx' = [tx EXCEPT ![w].irow = infos[call[w].id]]
            /\ Goto(w, "del_u")
            /\ UNCHANGED <<users, nextId, clock, call, loc, res, tokens>>

\* DELETE FROM user_infos WHERE user_id = $1 RETURNING *
UserInfoDTO_delete(w) ==
    /\ UNCHANGED <<probe, bootstrap>>
    /\ pc[w] = "del_i" /\ Quiet
    /\ ~LockedI(w, call[w].id)
    /\ IF ~IsRow(infos[call[w].id])
       THEN Fail(w, "EntryNotFound", <<>>)
       ELSE /\ tx' = [tx EXCEPT ![w].ist = "del", ![w].irow = infos[call[w].id]]
            /\ Goto(w, "del_u")
            /\ UNCHANGED <<users, infos, nextId, clock, call, loc, res, tokens>>

\* a delete that hands the account back but leaves its users row in place
UserDTO_delete_kept(w) ==
    /\ UNCHANGED <<probe, bootstrap>>
    /\ pc[w] = "del_u" /\ Quiet
    /\ ~LockedU(w, call[w].id)
    /\ IF ~IsRow(users[call[w].id])
       THEN Fail(w, "EntryNotFound", <<>>)
       ELSE /\ loc' = [loc EXCEPT ![w].user =
                          UserFrom(users[call[w].id], UserInfoFrom(tx[w].irow))]
            /\ Goto(w, "commit")
            /\ UNCHANGED <<users, infos, nextId, clock, call, tx, res, tokens>>

\* DELETE FROM users WHERE user_id = $1 RETURNING *
UserDTO_delete(w) ==
    /\ UNCHANGED <<probe, bootstrap>>
    /\ pc[w] = "del_u" /\ Quiet
    /\ ~LockedU(w, call[w].id)
    /\ IF ~IsRow(users[call[w].id])
       THEN Fail(w, "EntryNotFound", <<>>)
       ELSE /\ tx' = [tx EXCEPT ![w].ust = "del", ![w].urow = users[call[w].id]]
            /\ loc' = [loc EXCEPT ![w].user =
                          UserFrom(users[call[w].id], UserInfoFrom(tx[w].irow))]
            /\ Goto(w, "commit")
            /\ UNCHANGED <<users, infos, nextId, clock, call, res, tokens>>

\* tx.commit(), then Ok(result)
Commit(w) ==
    /\ UNCHANGED <<probe, bootstrap>>
    /\ pc[w] = "commit" /\ Quiet
    /\ users' = Committed(users, tx[w].id, tx[w].ust, tx[w].urow, NoRow)
    /\ infos' = Committed(infos, tx[w].id, tx[w].ist, tx[w].irow, NoInfoRow)
    /\ tx' = [tx EXCEPT ![w] = NoTx]
    /\ Reply(w, Ok(loc[w].user))
    /\ UNCHANGED <<nextId, clock, call, loc>>


\* SELECT * FROM users WHERE email = $1: the first matching row, if any
RowByEmail(email) ==
    IF \E j \in Ids : IsRow(users[j]) /\ users[j].email = email
    THEN users[CHOOSE j \in Ids : IsRow(users[j]) /\ users[j].email = email]
    ELSE NoRow

\* SELECT * FROM users WHERE user_id = $1 (UsersService::get_by_id -> PgStorage::get)
UserDTO_get_by_id(w) ==
    /\ UNCHANGED <<probe, bootstrap>>
    /\ pc[w] = "get_u" /\ Quiet
    /\ IF ~IsRow(users[call[w].id])
       THEN Fail(w, "EntryNotFound", <<>>)
       ELSE /\ loc' = [loc EXCEPT ![w].udto = users[call[w].id],
                                   ![w].snap = infos[call[w].id]]
            /\ Goto(w, "get_i")
            /\ UNCHANGED <<users, infos, nextId, clock, call, tx, res, tokens>>

\* SELECT * FROM users WHERE email = $1 (PgStorage::find_by_email)
UserDTO_get_by_email(w) ==
    /\ UNCHANGED <<probe, bootstrap>>
    /\ pc[w] = "find_u" /\ Quiet
    /\ IF ~IsRow(RowByEmail(call[w].email))
       THEN Fail(w, "EntryNotFound", <<>>)
       ELSE /\ loc' = [loc EXCEPT ![w].udto = RowByEmail(call[w].email),
                                   ![w].snap = infos[RowByEmail(call[w].email).user_id]]
            /\ Goto(w, "find_i")
            /\ UNCHANGED <<users, infos, nextId, clock, call, tx, res, tokens>>

\* SELECT * FROM user_infos WHERE user_id = $1, fetch_one; then Ok(User::from(..))
UserInfoDTO_get_by_user_id(w) ==
    /\ UNCHANGED <<probe, bootstrap>>
    /\ pc[w] \in {"get_i", "find_i"} /\ Quiet
    /\ IF ~IsRow(infos[loc[w].udto.user_id])
       THEN Fail(w, "DatabaseInternalError", RowNotFoundMsg)
       ELSE /\ loc' = [loc EXCEPT ![w].idto = infos[loc[w].udto.user_id]]
            /\ Reply(w, Ok(UserFrom(loc[w].udto, UserInfoFrom(infos[loc[w].udto.user_id]))))
            /\ UNCHANGED <<users, infos, nextId, clock, call, tx>>

\* PgStorage::verify_user, and the branch UsersService::signin takes on its result
PgStorage_verify_user(w) ==
    /\ UNCHANGED <<probe, bootstrap>>
    /\ pc[w] = "verify" /\ Quiet
    /\ LET user == RowByEmail(call[w].email)
           v == verify_password(user.password_hash, call[w].password)
       IN  IF ~IsRow(user) THEN Fail(w, "EntryNotFound", <<>>)
           ELSE IF v.err THEN Fail(w, "CryptoError", <<>>)
           ELSE IF ~v.ok THEN Fail(w, "InvalidCredentials", <<>>)
           ELSE /\ Goto(w, "find_u")
                /\ UNCHANGED <<users, infos, nextId, clock, call, tx, loc, res, tokens>>

DbPcs == {"begin", "ins_u", "ins_i", "upd_i", "upd_u", "del_i", "del_u", "commit",
          "get_u", "get_i", "find_u", "find_i", "verify", "list", "total",
          "gate_u", "gate_i"}

\* any database call can fail (connection fault, acquire timeout)
DbFail(w) ==
    /\ UNCHANGED <<probe, bootstrap>>
    /\ pc[w] \in DbPcs /\ Quiet
    /\ Fail(w, IF pc[w] = "total" THEN "Custom" ELSE "DatabaseInternalError", ConnectionMsg)

(* --------------------------- directory listing -------------------------- *)
DEFAULT_PAGE_NUM == 1
DEFAULT_PER_PAGE == 10
MAX_PER_PAGE == 100

DigitOf == [c \in DigitChars |-> CHOOSE n \in 0..9 : <<"0","1","2","3","4","5","6","7","8","9">>[n + 1] = c]

\* a u32 as two 16-bit words, so that values up to 2^32 - 1 and the wrap of a
\* product stay exact
W16 == 65536
U32(n) == [hi |-> n \div W16, lo |-> n % W16]
U32None == [hi |-> W16, lo |-> 0]

\* acc * 10 + d, or U32None once the value leaves u32
PushDigit(acc, d) ==
    LET lo == acc.lo * 10 + d
        hi == acc.hi * 10 + lo \div W16
    IN  IF acc = U32None \/ hi >= W16 THEN U32None ELSE [hi |-> hi, lo |-> lo % W16]

RECURSIVE DigitsValue(_)
DigitsValue(s) ==
    IF s = <<>> THEN U32(0)
    ELSE PushDigit(DigitsValue(SubSeq(s, 1, Len(s) - 1)), DigitOf[s[Len(s)]])

\* str::parse::<u32>().ok(): None for anything but a decimal number below 2^32
\* (one leading "+" is accepted)
ParseU32(s) ==
    LET digits == IF s # <<>> /\ s[1] = "+" THEN Tail(s) ELSE s
    IN  IF digits # <<>> /\ SeqRange(digits) \subseteq DigitChars /\ DigitsValue(digits) # U32None
        THEN Some(DigitsValue(digits))
        ELSE None

\* the value UsersFilterBuilder::page / ::per_page inserts
UsersFilterBuilder_page(page) == IF page = U32(0) THEN U32(DEFAULT_PAGE_NUM) ELSE page

\* a per_page setter without its upper limit
UsersFilterBuilder_per_page_unlimited(per_page) ==
    IF per_page = U32(0) THEN DEFAULT_PER_PAGE
    ELSE IF per_page.hi > 0 THEN W16 - 1
    ELSE per_page.lo

UsersFilterBuilder_per_page(per_page) ==
    IF per_page = U32(0) THEN DEFAULT_PER_PAGE
    ELSE IF per_page.hi > 0 \/ per_page.lo > MAX_PER_PAGE THEN MAX_PER_PAGE
    ELSE per_page.lo

\* Option::and_then(..).unwrap_or(default) over an optional numeric string
ParsedOr(opt, default) ==
    IF opt # None /\ ParseU32(opt[1]) # None THEN ParseU32(opt[1])[1] ELSE U32(default)

\* String -> UserRole of `r.try_into()`: the names FromStr accepts
UserRole_try_from(s) == RoleFromStr(s)

UsersService_list(c, query) ==
    LET role == IF query.role # None /\ UserRole_try_from(query.role[1]) # NoRole
                THEN Some(UserRole_try_from(query.role[1])) ELSE None
        filter == [page |-> UsersFilterBuilder_page(ParsedOr(query.page, DEFAULT_PAGE_NUM)),
                   per_page |-> UsersFilterBuilder_per_page(
                                    ParsedOr(query.per_page, DEFAULT_PER_PAGE)),
                   role |-> role,
                   search_string |-> query.q]
    IN  Stage("list", [c EXCEPT !.op = "list", !.query = query, !.filter = filter], NoRes)

\* text LIKE pattern: "%" stands for any run of characters, "_" for any one
\* character, and a backslash makes the character after it literal
RECURSIVE Like(_, _)
Like(text, pattern) ==
    IF pattern = <<>> THEN text = <<>>
    ELSE IF pattern[1] = "%"
    THEN Like(text, Tail(pattern)) \/ (text # <<>> /\ Like(Tail(text), pattern))
    ELSE IF pattern[1] = "\\" /\ Len(pattern) >= 2
    THEN text # <<>> /\ text[1] = pattern[2]
         /\ Like(Tail(text), SubSeq(pattern, 3, Len(pattern)))
    ELSE text # <<>> /\ pattern[1] \in {"_", text[1]} /\ Like(Tail(text), Tail(pattern))

\* format!("%{q}%")
SearchPattern(q) == <<"%">> \o q \o <<"%">>

\* text ILIKE pattern, the pattern bound as written; a NULL column never matches
ILike(opt, q) == opt # None /\ Like(to_lowercase(opt[1]), to_lowercase(SearchPattern(q)))

\* the WHERE clause PgStorage::list and ::total build: users LEFT JOIN user_infos
Matches(id, filter) ==
    LET info == IF IsRow(infos[id]) THEN infos[id].info ELSE EmptyInfo
    IN  /\ IsRow(users[id])
        /\ filter.role # None => users[id].role = RoleName(filter.role[1])
        /\ filter.search_string # None =>
              \/ ILike(Some(users[id].email), filter.search_string[1])
              \/ ILike(info.username, filter.search_string[1])
              \/ ILike(info.first_name, filter.search_string[1])
              \/ ILike(info.last_name, filter.search_string[1])

\* ORDER BY u.created DESC
RECURSIVE OrderByCreatedDesc(_)
OrderByCreatedDesc(S) ==
    IF S = {} THEN <<>>
    ELSE LET first == CHOOSE i \in S : \A j \in S :
                          \/ users[i].created > users[j].created
                          \/ users[i].created = users[j].created /\ i >= j
         IN  <<first>> \o OrderByCreatedDesc(S \ {first})

\* page.saturating_sub(1)
SaturatingPred(page) ==
    IF page = U32(0) THEN page
    ELSE IF page.lo = 0 THEN [hi |-> page.hi - 1, lo |-> W16 - 1]
    ELSE [hi |-> page.hi, lo |-> page.lo - 1]

\* page.saturating_sub(1) * per_page, the exact product: hi >= W16 when it
\* does not fit u32
Product(filter) ==
    LET p  == SaturatingPred(filter.page)
        lo == p.lo * filter.per_page
    IN  [hi |-> p.hi * filter.per_page + lo \div W16, lo |-> lo % W16]

Overflows(filter) == Product(filter).hi >= W16

\* (.. * ..) as i64 where the u32 product wraps
Offset(filter) == [hi |-> Product(filter).hi % W16, lo |-> Product(filter).lo]

\* LIMIT per_page OFFSET offset, each row converted to a User
ListQuery(filter) ==
    LET all == OrderByCreatedDesc({id \in Ids : Matches(id, filter)})
        off == Offset(filter)
        ids == IF off.hi > 0 \/ off.lo >= Len(all) THEN <<>>
               ELSE SubSeq(all, off.lo + 1,
                           IF off.lo + filter.per_page < Len(all)
                           THEN off.lo + filter.per_page ELSE Len(all))
    IN  [k \in 1..Len(ids) |->
            UserFrom(users[ids[k]],
                     IF IsRow(infos[ids[k]]) THEN UserInfoFrom(infos[ids[k]]) ELSE EmptyInfo)]

\* a count that leaves the search term out
TotalMatches_role_only(id, filter) ==
    /\ IsRow(users[id])
    /\ filter.role # None => users[id].role = RoleName(filter.role[1])

\* the WHERE clause PgStorage::total builds from filter.role and
\* filter.search_string
TotalMatches(id, filter) ==
    LET info == IF IsRow(infos[id]) THEN infos[id].info ELSE EmptyInfo
        role_condition ==
            IF filter.role = None THEN TRUE
            ELSE users[id].role = RoleName(filter.role[1])
        search_condition ==
            IF filter.search_string = None THEN TRUE
            ELSE LET search_pattern == to_lowercase(SearchPattern(filter.search_string[1]))
                     ilike(column) ==
                         column # None /\ Like(to_lowercase(column[1]), search_pattern)
                 IN  \/ ilike(Some(users[id].email))
                     \/ ilike(info.username)
                     \/ ilike(info.first_name)
                     \/ ilike(info.last_name)
    IN  IsRow(users[id]) /\ role_condition /\ search_condition

\* SELECT COUNT(*) as total FROM users u LEFT JOIN user_infos ui ... WHERE ...
TotalQuery(filter) == Cardinality({id \in Ids : TotalMatches(id, filter)})

\* the unwinding of a panicking handler: no reply is built
Panic == [NoRes EXCEPT !.err = "Panic", !.status = 500]

\* PgStorage::list; an overflowing product panics where overflow checks are
\* compiled in and wraps where they are not
PgStorage_list(w) ==
    /\ UNCHANGED <<probe, bootstrap>>
    /\ pc[w] = "list" /\ Quiet
    /\ \/ /\ loc' = [loc EXCEPT ![w].users = ListQuery(call[w].filter)]
          /\ Goto(w, "total")
          /\ UNCHANGED <<users, infos, nextId, clock, call, tx, res, tokens>>
       \/ /\ Overflows(call[w].filter)
          /\ Reply(w, Panic)
          /\ UNCHANGED <<users, infos, nextId, clock, call, tx, loc>>

\* PgStorage::total, then UsersListResponse {current_filter, total, users}
PgStorage_total(w) ==
    /\ UNCHANGED <<probe, bootstrap>>
    /\ pc[w] = "total" /\ Quiet
    /\ Reply(w, [Ok(NoUser) EXCEPT !.users = loc[w].users,
                                   !.total = TotalQuery(call[w].filter)])
    /\ UNCHANGED <<users, infos, nextId, clock, call, tx, loc>>

Queries == [page : {None, Some(<<"2">>), Some(<<"4","2","9","4","9","6","7","2","9","5">>)}, per_page : {None, Some(<<"1">>)},
            role : {None, Some(<<"a","d","m","i","n">>)}, q : {None, Some(<<"A">>)}]

List(w) ==
    /\ UNCHANGED <<probe, bootstrap>>
    /\ pc[w] = "idle" /\ Quiet
    /\ \E query \in Queries : Enter(w, UsersService_list(ServiceCall, query))
    /\ UNCHANGED <<users, infos, nextId, clock, tx, loc, tokens>>

\* the parameters a caller of the listing alone can pass: absent, numbers in
\* and out of range, text that is no number, role names known and unknown,
\* search terms with and without the characters LIKE gives a meaning to
ListQueries ==
    [page : {None, Some(<<"0">>), Some(<<"+","2">>), Some(<<"x">>),
             Some(<<"6","7","1","0","8","8","6","5">>),
             Some(<<"4","2","9","4","9","6","7","2","9","5">>)},
     per_page : {None, Some(<<"1">>), Some(<<"6","4">>), Some(<<"5","0","0">>)},
     role : {None, Some(<<"a","d","m","i","n">>), Some(<<"b","o","s","s">>)},
     q : {None, Some(<<"A">>), Some(<<"_">>)}]

\* UsersService::list called with any of them
ListWide(w) ==
    /\ UNCHANGED <<probe, bootstrap>>
    /\ pc[w] = "idle" /\ Quiet
    /\ \E query \in ListQueries : Enter(w, UsersService_list(ServiceCall, query))
    /\ UNCHANGED <<users, infos, nextId, clock, tx, loc, tokens>>

(* ------------------------------ HTTP layer ------------------------------ *)
\* the handler behind the gate, run up to its first database call
get_by_id_handler(c, user) ==
    LET parsed_id == parse_str(c.idstr)
    IN  IF parsed_id = UuidErr THEN Stage("done", c, Err("InvalidInput"))
        ELSE IF ~is_admin(user.role) /\ user.user_id # parsed_id
        THEN Stage("done", c, Err("AccessDenied"))
        ELSE UsersService_get_by_id(c, c.idstr)

delete_handler(c, user) ==
    IF parse_str(c.idstr) = UuidErr THEN Stage("done", c, Err("InvalidInput"))
    ELSE IF ~is_admin(user.role) THEN Stage("done", c, Err("AccessDenied"))
    ELSE UsersService_delete(c, c.idstr)

\* the update without its ownership check
update_handler_unchecked(c, user) ==
    IF parse_str(c.idstr) = UuidErr THEN Stage("done", c, Err("InvalidInput"))
    ELSE UsersService_update(c, c.idstr, c.upd)


update_handler(c, user) ==
    LET parsed_id == parse_str(c.idstr)
    IN  IF parsed_id = UuidErr THEN Stage("done", c, Err("InvalidInput"))
        ELSE IF ~is_admin(user.role) /\ user.user_id # parsed_id
        THEN Stage("done", c, Err("AccessDenied"))
        ELSE UsersService_update(c, c.idstr, c.upd)

\* the listing without its role check
list_handler_open(c, user) == UsersService_list(c, c.query)


list_handler(c, user) ==
    IF ~is_admin(user.role) THEN Stage("done", c, Err("AccessDenied"))
    ELSE UsersService_list(c, c.query)

getme_handler(c, user) == Stage("done", c, Ok(user))

\* users::routes: the handler of each route
Handler(c, user) ==
    CASE c.route = "get_by_id" -> get_by_id_handler(c, user)
      [] c.route = "delete"    -> delete_handler(c, user)
      [] c.route = "update"    -> update_handler(c, user)
      [] c.route = "list"      -> list_handler(c, user)
      [] OTHER                 -> getme_handler(c, user)

\* the requests a client can send to the routes of users::routes
ProtectedRequests ==
    {[NoCall EXCEPT !.route = "me"]}
    \cup {[NoCall EXCEPT !.route = r, !.idstr = i] : r \in {"get_by_id", "delete"}, i \in IdStrs}
    \cup {[NoCall EXCEPT !.route = "update", !.idstr = i, !.upd = u] : i \in IdStrs, u \in Updates}
    \cup {[NoCall EXCEPT !.route = "list", !.query = q] : q \in Queries}

\* what a client can present: nothing, a token the server issued, or a token
\* signed with another secret
Presented ==
    {NoToken} \cup tokens
    \cup {[present |-> TRUE, sub |-> i, iat |-> 0, exp |-> clock + ExpiresIn, sig |-> "bad"] :
             i \in IdStrs}

\* routes::init as written: users::routes is merged without the auth layer, so
\* no User is attached and the handler's Extension<User> extractor rejects
RouterRequest(w) ==
    /\ UNCHANGED <<probe, bootstrap>>
    /\ pc[w] = "idle" /\ Quiet
    /\ \E c \in ProtectedRequests, token \in Presented :
          Enter(w, Stage("done", [c EXCEPT !.entry = "router", !.token = token],
                         MissingExtension))
    /\ UNCHANGED <<users, infos, nextId, clock, tx, loc, tokens>>

\* middleware::auth with users::routes as `next`, up to its lookup of the subject
auth(c, now) ==
    IF ~c.token.present THEN Stage("done", c, Unauthorized)
    ELSE IF ~decode(c.token, now) THEN Stage("done", c, Unauthorized)
    ELSE IF parse_str(c.token.sub) = UuidErr THEN Stage("done", c, Unauthorized)
    ELSE Stage("gate_u", [c EXCEPT !.id = parse_str(c.token.sub)], NoRes)

GateRequest(w) ==
    /\ UNCHANGED <<probe, bootstrap>>
    /\ pc[w] = "idle" /\ Quiet
    /\ \E c \in ProtectedRequests, token \in Presented :
          Enter(w, auth([c EXCEPT !.entry = "gate", !.token = token], clock))
    /\ UNCHANGED <<users, infos, nextId, clock, tx, loc, tokens>>

\* a lookup that falls back on another account when the row is gone
Gate_get_by_id_fallback(w) ==
    /\ UNCHANGED <<probe, bootstrap>>
    /\ pc[w] = "gate_u" /\ Quiet
    /\ LET found == IF IsRow(users[call[w].id]) THEN {call[w].id}
                    ELSE {i \in Ids : IsRow(users[i])}
       IN  IF found = {}
           THEN Fail(w, "EntryNotFound", <<>>)
           ELSE /\ \E i \in found : loc' = [loc EXCEPT ![w].udto = users[i]]
                /\ Goto(w, "gate_i")
                /\ UNCHANGED <<users, infos, nextId, clock, call, tx, res, tokens>>

\* the gate's users_service.get_by_id(&claims.sub): the users row
Gate_get_by_id(w) ==
    /\ UNCHANGED <<probe, bootstrap>>
    /\ pc[w] = "gate_u" /\ Quiet
    /\ IF ~IsRow(users[call[w].id])
       THEN Fail(w, "EntryNotFound", <<>>)
       ELSE /\ loc' = [loc EXCEPT ![w].udto = users[call[w].id]]
            /\ Goto(w, "gate_i")
            /\ UNCHANGED <<users, infos, nextId, clock, call, tx, res, tokens>>

\* ... the user_infos row; then req.extensions_mut().insert(user); next.run(req)
Gate_get_by_user_id(w) ==
    /\ UNCHANGED <<probe, bootstrap>>
    /\ pc[w] = "gate_i" /\ Quiet
    /\ IF ~IsRow(infos[loc[w].udto.user_id])
       THEN Fail(w, "DatabaseInternalError", RowNotFoundMsg)
       ELSE LET user == UserFrom(loc[w].udto, UserInfoFrom(infos[loc[w].udto.user_id]))
            IN  /\ loc' = [loc EXCEPT ![w].actor = user]
                /\ Enter(w, Handler(call[w], user))
                /\ UNCHANGED <<users, infos, nextId, clock, tx, tokens>>

\* clients hold at most this many tokens
MaxTokens == 2

\* signup_handler: SignupForm {email, password, confirm_password}
SignupRequest(w) ==
    /\ UNCHANGED <<probe, bootstrap>>
    /\ pc[w] = "idle" /\ Quiet
    /\ nextId + PendingSignups <= MaxIds
    /\ Cardinality(tokens) < MaxTokens
    /\ \E email \in RawEmails, password \in Passwords, confirm_password \in Passwords :
          LET c == [NoCall EXCEPT !.entry = "public", !.route = "signup"]
          IN  IF confirm_password # password
              THEN Enter(w, Stage("done", c, [NoRes EXCEPT !.err = "PasswordsMismatch",
                                                            !.status = 400]))
              ELSE Enter(w, UsersService_signup(c, email, password, None))
    /\ UNCHANGED <<users, infos, nextId, clock, tx, loc, tokens>>

\* signin_handler: SigninForm {email, password}
SigninRequest(w) ==
    /\ UNCHANGED <<probe, bootstrap>>
    /\ pc[w] = "idle" /\ Quiet
    /\ Cardinality(tokens) < MaxTokens
    /\ \E email \in RawEmails, password \in Passwords :
          Enter(w, UsersService_signin([NoCall EXCEPT !.entry = "public", !.route = "signin"],
                                       email, password))
    /\ UNCHANGED <<users, infos, nextId, clock, tx, loc, tokens>>

\* time passes
Tick ==
    /\ UNCHANGED <<probe, bootstrap>>
    /\ Quiet
    /\ clock < MaxClock
    /\ clock' = clock + 1
    /\ UNCHANGED <<users, infos, nextId, pc, call, tx, loc, res, tokens>>

(* ------------------- the builder and the hash by themselves ------------- *)
\* #[builder(default = ..)]: the value build() takes for a field never set
BuilderDefaults == [page |-> Some(U32(DEFAULT_PAGE_NUM)), per_page |-> Some(DEFAULT_PER_PAGE)]

\* UsersFilterBuilder::build: Err(UninitializedField) for a field that was
\* neither set nor given a default
UsersFilterBuilder_build(b) ==
    LET value(f) == IF b[f] # None THEN b[f] ELSE BuilderDefaults[f]
    IN  IF value("page") = None \/ value("per_page") = None
        THEN [ok |-> FALSE, filter |-> NoFilter]
        ELSE [ok |-> TRUE,
              filter |-> [page |-> value("page")[1], per_page |-> value("per_page")[1],
                          role |-> None, search_string |-> None]]

Max32 == [hi |-> W16 - 1, lo |-> W16 - 1]

PageInputs == {U32(0), U32(1), U32(2), U32(7), Max32}
PerPageInputs == {U32(0), U32(1), U32(10), U32(100), U32(101), U32(150), U32(W16), Max32}

service_vars == <<users, infos, nextId, clock, pc, call, tx, loc, res, tokens, bootstrap>>

\* builder.page(n)
SetPage ==
    /\ \E n \in PageInputs :
          probe' = [probe EXCEPT !.builder.page = Some(UsersFilterBuilder_page(n)),
                                 !.args.page = Some(n), !.built = None, !.again = FALSE]
    /\ UNCHANGED service_vars

\* builder.per_page(n)
SetPerPage ==
    /\ \E n \in PerPageInputs :
          probe' = [probe EXCEPT !.builder.per_page = Some(UsersFilterBuilder_per_page(n)),
                                 !.args.per_page = Some(n), !.built = None, !.again = FALSE]
    /\ UNCHANGED service_vars

\* both setters called once more, each with the value it had stored
SetAgain ==
    /\ probe.builder.page # None /\ probe.builder.per_page # None /\ ~probe.again
    /\ probe' = [probe EXCEPT
                    !.builder.page = Some(UsersFilterBuilder_page(probe.builder.page[1])),
                    !.builder.per_page =
                        Some(UsersFilterBuilder_per_page(U32(probe.builder.per_page[1]))),
                    !.built = None, !.again = TRUE]
    /\ UNCHANGED service_vars

\* builder.build()
Build ==
    /\ probe.built = None
    /\ probe' = [probe EXCEPT !.built = Some(UsersFilterBuilder_build(probe.builder))]
    /\ UNCHANGED service_vars

Salts == {FreshSalt(1), FreshSalt(2)}

\* a hash Argon2 did not write: of another algorithm, or cut short
ForeignHashes == {[alg |-> "pbkdf2", salt |-> FreshSalt(1), digest |-> <<FreshSalt(1), P_strong>>],
                  [alg |-> "", salt |-> FreshSalt(1), digest |-> <<>>]}

\* hash_password(password) with the salt the generator draws
HashPassword ==
    /\ \E salt \in Salts :
          probe' = [probe EXCEPT !.hash = hash_password(probe.password, salt),
                                 !.hashed = TRUE, !.verified = None]
    /\ UNCHANGED service_vars

\* a stored hash that hash_password did not produce
StoreForeignHash ==
    /\ \E h \in ForeignHashes :
          probe' = [probe EXCEPT !.hash = h, !.hashed = FALSE, !.verified = None]
    /\ UNCHANGED service_vars

\* verify_password(hash, offered)
VerifyPassword ==
    /\ probe.verified = None
    /\ probe' = [probe EXCEPT !.verified = Some(verify_password(probe.hash, probe.offered))]
    /\ UNCHANGED service_vars

(* ---------------------------- specifications ---------------------------- *)
Step(w) ==
    \/ Begin(w)
    \/ UserDTO_create(w)
    \/ UserInfoDTO_create(w)
    \/ UserInfoDTO_update(w)
    \/ UserDTO_update(w)
    \/ UserInfoDTO_delete(w)
    \/ UserDTO_delete(w)
    \/ Commit(w)
    \/ UserDTO_get_by_id(w)
    \/ UserDTO_get_by_email(w)
    \/ UserInfoDTO_get_by_user_id(w)
    \/ PgStorage_verify_user(w)
    \/ DbFail(w)
    \/ Return(w)

\* concurrent workers calling the service
Next ==
    \E w \in Workers :
        \/ Signup(w, {None})
        \/ Signin(w)
        \/ GetById(w)
        \/ Update(w)
        \/ Delete(w)
        \/ Step(w)

Spec == Init /\ [][Next]_vars

\* one request at a time, through the service or through the HTTP routes
Single == "w1"

NextSeq ==
    \/ Signup(Single, RoleInputs)
    \/ Signin(Single)
    \/ GetUserInfo(Single)
    \/ GetById(Single)
    \/ Update(Single)
    \/ Delete(Single)
    \/ List(Single)
    \/ SignupRequest(Single)
    \/ SigninRequest(Single)
    \/ RouterRequest(Single)
    \/ GateRequest(Single)
    \/ Gate_get_by_id(Single)
    \/ Gate_get_by_user_id(Single)
    \/ PgStorage_list(Single)
    \/ PgStorage_total(Single)
    \/ Step(Single)
    \/ Tick

SpecSeq == Init /\ [][NextSeq]_vars

\* one caller at a time: the directory is filled, changed and listed
NextList ==
    \/ Signup(Single, RoleInputs)
    \/ Update(Single)
    \/ Delete(Single)
    \/ ListWide(Single)
    \/ PgStorage_list(Single)
    \/ PgStorage_total(Single)
    \/ Begin(Single)
    \/ UserDTO_create(Single)
    \/ UserInfoDTO_create(Single)
    \/ UserInfoDTO_update(Single)
    \/ UserDTO_update(Single)
    \/ UserInfoDTO_delete(Single)
    \/ UserDTO_delete(Single)
    \/ Commit(Single)
    \/ DbFail(Single)
    \/ Return(Single)

SpecList == Init /\ [][NextList]_vars

\* one caller at a time signing accounts up
NextSignup ==
    \/ SignupWide(Single)
    \/ Begin(Single)
    \/ UserDTO_create(Single)
    \/ UserInfoDTO_create(Single)
    \/ Commit(Single)
    \/ DbFail(Single)
    \/ Return(Single)

SpecSignup == Init /\ [][NextSignup]_vars

\* the builder and the two credential functions called by themselves, on a
\* password and an offered password drawn at the start
PurePasswords == {<<>>, <<"a">>, <<"A">>, P_strong, P_wrong}

InitPure ==
    /\ users = [i \in Ids |-> NoRow]
    /\ infos = [i \in Ids |-> NoInfoRow]
    /\ nextId = 1
    /\ clock = 0
    /\ pc = [w \in Workers |-> "idle"]
    /\ call = [w \in Workers |-> NoCall]
    /\ tx = [w \in Workers |-> NoTx]
    /\ loc = [w \in Workers |-> NoLoc]
    /\ res = [w \in Workers |-> NoRes]
    /\ tokens = {}
    /\ \E p \in PurePasswords, q \in PurePasswords :
          probe = [NoProbe EXCEPT !.password = p, !.offered = q]
    /\ bootstrap = NoBootstrap

NextPure ==
    \/ SetPage
    \/ SetPerPage
    \/ SetAgain
    \/ Build
    \/ HashPassword
    \/ StoreForeignHash
    \/ VerifyPassword

SpecPure == InitPure /\ [][NextPure]_vars

\* a second password the policy accepts
P_other == <<"0","t","h","e","r","P","@","s","s","1">>

\* signups of one email with either of two accepted passwords
SignupTwo(w) ==
    /\ UNCHANGED <<probe, bootstrap>>
    /\ pc[w] = "idle" /\ Quiet
    /\ nextId + PendingSignups <= MaxIds
    /\ \E password \in {P_strong, P_other} :
          Enter(w, UsersService_signup(ServiceCall, E_a, password, None))
    /\ UNCHANGED <<users, infos, nextId, clock, tx, loc, tokens>>

\* signins with that email and either password
SigninTwo(w) ==
    /\ UNCHANGED <<probe, bootstrap>>
    /\ pc[w] = "idle" /\ Quiet
    /\ \E password \in {P_strong, P_other} :
          Enter(w, UsersService_signin(ServiceCall, E_a, password))
    /\ UNCHANGED <<users, infos, nextId, clock, tx, loc, tokens>>

\* two workers signing one email up, signing in with it and deleting accounts
NextSignin ==
    \E w \in Workers :
        \/ SignupTwo(w)
        \/ SigninTwo(w)
        \/ Delete(w)
        \/ Begin(w)
        \/ UserDTO_create(w)
        \/ UserInfoDTO_create(w)
        \/ UserInfoDTO_delete(w)
        \/ UserDTO_delete(w)
        \/ Commit(w)
        \/ PgStorage_verify_user(w)
        \/ UserDTO_get_by_email(w)
        \/ UserInfoDTO_get_by_user_id(w)
        \/ DbFail(w)
        \/ Return(w)

SpecSignin == Init /\ [][NextSignin]_vars

(* ----------------------- the identity-bootstrap service ----------------------- *)
\* the variables of the account service and of the pure functions, which the
\* identity-bootstrap service leaves alone
main_vars == <<users, infos, nextId, clock, pc, call, tx, loc, res, tokens, probe>>

\* register_user: let limit = 100
ScanLimit == 100

\* the position of a row in ORDER BY user_id
Rank(dir, i) == Cardinality({j \in TgIds : dir[j].present /\ j <= i})

\* get_all_users: SELECT * FROM users ORDER BY user_id LIMIT $1 OFFSET $2
get_all_users(dir, limit, offset) ==
    {i \in TgIds : dir[i].present /\ Rank(dir, i) > offset /\ Rank(dir, i) <= offset + limit}

BootOk(role) == [ok |-> TRUE, role |-> role, err |-> ""]
BootErr(err) == [ok |-> FALSE, role |-> "", err |-> err]

\* UsersServer::register_user receives a request
RegisterCall(w) ==
    /\ bootstrap.at[w] = "idle"
    /\ \E i \in TgIds, n \in TgNames :
          bootstrap' = [bootstrap EXCEPT
              !.at[w] = "get",
              !.req[w] = [NoReq EXCEPT !.op = "register", !.user_id = i, !.user_name = n]]
    /\ UNCHANGED main_vars

\* the bot receives the command /start from a user
StartCall(w) ==
    /\ bootstrap.at[w] = "idle"
    /\ \E i \in TgIds, n \in TgNames :
          bootstrap' = [bootstrap EXCEPT
              !.at[w] = "start_get",
              !.req[w] = [NoReq EXCEPT !.op = "start", !.user_id = i, !.user_name = n]]
    /\ UNCHANGED main_vars

\* start_command_handler: users_client.get_user answers with the stored role,
\* or fails and the handler registers the user
start_command_handler(w) ==
    /\ bootstrap.at[w] = "start_get"
    /\ LET row == bootstrap.dir[bootstrap.req[w].user_id] IN
       IF row.present
       THEN bootstrap' = [bootstrap EXCEPT !.at[w] = "done", !.out[w] = BootOk(row.user_role)]
       ELSE bootstrap' = [bootstrap EXCEPT !.at[w] = "get"]
    /\ UNCHANGED main_vars

\* register_user: if let Some(existing_user) = self.get_user_by_id(user_id)
register_user_lookup(w) ==
    /\ bootstrap.at[w] = "get"
    /\ LET row == bootstrap.dir[bootstrap.req[w].user_id] IN
       IF row.present
       THEN bootstrap' = [bootstrap EXCEPT !.at[w] = "done", !.out[w] = BootOk(row.user_role)]
       ELSE bootstrap' = [bootstrap EXCEPT !.at[w] = "scan",
                                           !.user_role[w] = "Admin",
                                           !.offset[w] = 0]
    /\ UNCHANGED main_vars

\* register_user: one turn of the loop over the pages of get_all_users
register_user_scan(w) ==
    /\ bootstrap.at[w] = "scan"
    /\ LET existing_users == get_all_users(bootstrap.dir, ScanLimit, bootstrap.offset[w]) IN
       IF existing_users = {}
       THEN bootstrap' = [bootstrap EXCEPT !.at[w] = "insert"]
       ELSE IF \E i \in existing_users : bootstrap.dir[i].user_role = "Admin"
       THEN bootstrap' = [bootstrap EXCEPT !.at[w] = "insert", !.user_role[w] = "Guest"]
       ELSE bootstrap' = [bootstrap EXCEPT !.offset[w] = @ + ScanLimit]
    /\ UNCHANGED main_vars

\* register_user: INSERT INTO users ... ON CONFLICT(user_id) DO NOTHING
\* RETURNING *, read with fetch_one: a conflict returns no row
register_user_insert(w) ==
    /\ bootstrap.at[w] = "insert"
    /\ LET r == bootstrap.req[w] IN
       IF bootstrap.dir[r.user_id].present
       THEN bootstrap' = [bootstrap EXCEPT !.at[w] = "done", !.out[w] = BootErr("RowNotFound")]
       ELSE bootstrap' = [bootstrap EXCEPT
                !.dir[r.user_id] = [present |-> TRUE, user_name |-> r.user_name,
                                    user_role |-> bootstrap.user_role[w]],
                !.at[w] = "done",
                !.out[w] = BootOk(bootstrap.user_role[w])]
    /\ UNCHANGED main_vars

\* UsersServer::update_user_role: UPDATE users SET user_role = $1 WHERE user_id = $2
update_user_role(w) ==
    /\ bootstrap.at[w] = "idle"
    /\ \E i \in TgIds, new_user_role \in BootRoles :
          /\ bootstrap.dir[i].present
          /\ bootstrap.dir[i].user_role # new_user_role
          /\ bootstrap' = [bootstrap EXCEPT !.dir[i].user_role = new_user_role]
    /\ UNCHANGED main_vars

\* UsersServer::delete_user: DELETE FROM users WHERE user_id = $1
delete_user(w) ==
    /\ bootstrap.at[w] = "idle"
    /\ \E i \in TgIds :
          /\ bootstrap.dir[i].present
          /\ bootstrap' = [bootstrap EXCEPT !.dir[i] = NoEntry]
    /\ UNCHANGED main_vars

\* the answer is sent and the caller is free again
BootReturn(w) ==
    /\ bootstrap.at[w] = "done"
    /\ bootstrap' = [bootstrap EXCEPT !.at[w] = "idle", !.req[w] = NoReq,
                                      !.user_role[w] = "Admin", !.offset[w] = 0,
                                      !.out[w] = NoOut]
    /\ UNCHANGED main_vars

\* two callers of the identity-bootstrap service
NextRegister ==
    \E w \in Workers :
        \/ RegisterCall(w)
        \/ StartCall(w)
        \/ start_command_handler(w)
        \/ register_user_lookup(w)
        \/ register_user_scan(w)
        \/ register_user_insert(w)
        \/ update_user_role(w)
        \/ delete_user(w)
        \/ BootReturn(w)

SpecRegister == Init /\ [][NextRegister]_vars

(* -------------------------------- claims -------------------------------- *)
\* C1: a create or update that fails after one of its statements has run is
\* rolled back as a whole: the committed account and profile rows change only
\* in the step of a commit that succeeds, and the failing step leaves both
\* tables as they were, the transaction closed and, for a create, no row
\* under the identifier it had drawn.
C1_Atomic ==
    [][/\ (users' # users \/ infos' # infos) =>
             \E w \in Workers : pc[w] = "commit" /\ pc'[w] = "done" /\ res'[w].ok
       /\ \A w \in Workers :
             (pc[w] # "done" /\ pc'[w] = "done" /\ res'[w].undone # 0) =>
                 /\ users' = users /\ infos' = infos
                 /\ ~tx'[w].active
                 /\ call[w].op = "signup" =>
                       ~IsRow(users'[res'[w].undone]) /\ ~IsRow(infos'[res'[w].undone])]_vars

\* an update failed on its account statement (the email is taken) after its
\* profile statement had run
C1_Witness ==
    \E w \in Workers :
        /\ pc[w] = "done" /\ call[w].op = "update"
        /\ res[w].undone = call[w].id /\ res[w].msg = DuplicateKeyMsg
        /\ IsRow(users[call[w].id]) /\ infos[call[w].id].info # call[w].upd.info

\* C2: a reader running beside an update or delete of the same account gets
\* the account whole as it was when the read began or whole as it is when the
\* read ends, or EntryNotFound: never the account row of one committed state
\* with the profile row of another, and never a failure for finding one row
\* without the other.
C2_NoPartialRead ==
    \A w \in Workers :
        (pc[w] = "done" /\ call[w].op \in {"get_by_id", "signin", "get_user_info"}) =>
            LET id == loc[w].udto.user_id
            IN  /\ res[w].ok =>
                      \/ res[w].user = UserFrom(loc[w].udto, UserInfoFrom(loc[w].snap))
                      \/ res[w].user = UserFrom(users[id], UserInfoFrom(infos[id]))
                /\ ~res[w].ok => res[w].msg # RowNotFoundMsg

\* C3: a signup that passed validation while an account holds its normalized
\* email (compared without regard to case) ends with EntryAlreadyExists,
\* or with the store's connection fault, and the step that ends it changes
\* neither table.
C3_Duplicate ==
    [][\A w \in Workers :
          (/\ pc[w] \in DbPcs /\ pc'[w] = "done" /\ call[w].op = "signup"
           /\ \E id \in Ids : IsRow(users[id]) /\ to_lowercase(users[id].email) = call[w].email)
          => /\ res'[w].err = "EntryAlreadyExists" \/ res'[w].msg = ConnectionMsg
             /\ ~res'[w].ok
             /\ users' = users /\ infos' = infos]_vars

\* a signup was refused for an email an account holds
C3_Witness ==
    \E w \in Workers :
        /\ pc[w] = "done" /\ call[w].op = "signup" /\ res[w].err = "EntryAlreadyExists"
        /\ \E id \in Ids : IsRow(users[id]) /\ users[id].email = call[w].email

C5_Normalized ==
    \A id \in Ids : IsRow(users[id]) => users[id].email = to_lowercase(trim(users[id].email))

\* C6: signin never answers EntryNotFound: an email without an account gets
\* the answer a wrong password gets.
C6_NoEnumeration ==
    \A w \in Workers :
        (pc[w] = "done" /\ call[w].op = "signin") => res[w].err # "EntryNotFound"

\* the password a stored hash was derived from
PasswordOf(hash) == hash.digest[2]

\* the request of w runs with an Account the gate attached
HasActor(w) == call[w].entry = "gate" /\ loc[w].actor.user_id # 0

Privileged(user) == user.role \in {"Owner", "Admin"}

\* C7: a signin whose normalized email is the stored email of an account
\* returns that account when the password is the one the account was created
\* with and fails with InvalidCredentials when it is another (a connection
\* fault of the store aside); no step of a signin that has not succeeded
\* changes the tables, the identifier sequence or the tokens issued.
C7_Signin ==
    [][\A w \in Workers :
          /\ (pc'[w] = "done" /\ call'[w].op = "signin" /\ res'[w].msg # ConnectionMsg) =>
                \A id \in Ids :
                    (IsRow(users'[id]) /\ users'[id].email = call'[w].email) =>
                        IF call'[w].password = PasswordOf(users'[id].password_hash)
                        THEN /\ res'[w].ok
                             /\ res'[w].user.user_id = id
                             /\ res'[w].user.email = call'[w].email
                        ELSE ~res'[w].ok /\ res'[w].err = "InvalidCredentials"
          /\ (call'[w].op = "signin" /\ ~res'[w].ok) =>
                /\ users' = users /\ infos' = infos
                /\ nextId' = nextId /\ tokens' = tokens]_vars

\* a signin with the right password returned the account, and the same
\* account would refuse the other password
C7_Witness ==
    \E w \in Workers :
        /\ pc[w] = "done" /\ call[w].op = "signin" /\ res[w].ok
        /\ IsRow(users[res[w].user.user_id])
        /\ users[res[w].user.user_id].email = call[w].email
        /\ call[w].password = P_strong

Resolves(w) ==
    /\ call[w].token.present /\ call[w].token.sig = "good"
    /\ parse_str(call[w].token.sub) # UuidErr
    /\ IsRow(users[parse_str(call[w].token.sub)])

\* C10: a protected handler calls the service only for a request to which the
\* gate attached an Account, and a request without a token, with a token that
\* fails verification or with a subject that names no account is answered
\* Unauthorized (401) with no service call and no open transaction.
C10_Gate ==
    \A w \in Workers :
        call[w].entry \in {"router", "gate"} =>
            /\ call[w].op # "none" => HasActor(w)
            /\ (pc[w] = "done" /\ ~Resolves(w)) =>
                  /\ res[w].status = 401
                  /\ call[w].op = "none" /\ ~tx[w].active

\* C11: a token issued at time t names the account it was issued for, is
\* stamped issuedAt = t and expiresAt = t + ExpiresIn; the gate refuses a
\* token whose signature does not verify and every token presented after
\* its expiresAt, and lets a well-signed token through up to its expiresAt.
C11_Window ==
    [][\A w \in Workers :
          /\ (pc[w] # "done" /\ pc'[w] = "done" /\ res'[w].token.present) =>
                 /\ res'[w].token.sub = IdToStr(res'[w].user.user_id)
                 /\ res'[w].token.iat = clock'
                 /\ res'[w].token.exp = clock' + ExpiresIn
          /\ (pc[w] = "idle" /\ call'[w].entry = "gate" /\ call'[w].token.present) =>
                 /\ (call'[w].token.sig # "good" \/ clock > call'[w].token.exp) =>
                        pc'[w] = "done" /\ res'[w] = Unauthorized
                 /\ (call'[w].token.sig = "good" /\ clock <= call'[w].token.exp) =>
                        pc'[w] = "gate_u"]_vars

\* C12: a successful delete returns the account as it was last stored, profile
\* included, and removes the account row and the profile row in one step; a
\* delete that fails changes nothing; a get or a delete that finds neither
\* row of its id ends with EntryNotFound (or a store fault) and changes nothing.
C12_Delete ==
    [][\A w \in Workers :
          LET id == call[w].id
          IN  /\ (call[w].op = "delete" /\ pc[w] # "done" /\ pc'[w] = "done" /\ res'[w].ok) =>
                     /\ IsRow(users[id]) /\ IsRow(infos[id])
                     /\ res'[w].user = UserFrom(users[id], UserInfoFrom(infos[id]))
                     /\ users' = [users EXCEPT ![id] = NoRow]
                     /\ infos' = [infos EXCEPT ![id] = NoInfoRow]
              /\ (call[w].op = "delete" /\ pc[w] # "done" /\ pc'[w] = "done" /\ ~res'[w].ok) =>
                     UNCHANGED <<users, infos>>
              /\ (/\ call[w].op \in {"get_by_id", "delete"}
                  /\ pc[w] \in {"get_u", "del_i"} /\ pc'[w] # pc[w]
                  /\ ~IsRow(users[id]) /\ ~IsRow(infos[id])) =>
                     /\ pc'[w] = "done"
                     /\ res'[w].err = "EntryNotFound" \/ res'[w].msg = ConnectionMsg
                     /\ UNCHANGED <<users, infos>>]_vars

\* a delete has returned an account whose profile had been filled in, and
\* both of its rows are gone
C12_Witness ==
    \E w \in Workers :
        /\ pc[w] = "done" /\ call[w].op = "delete" /\ res[w].ok
        /\ res[w].user.info = JohnInfo
        /\ ~IsRow(users[call[w].id]) /\ ~IsRow(infos[call[w].id])

\* C13: in every reachable state, whatever creates, updates and deletes have
\* committed, failed or are still running, an account row exists exactly when
\* the profile row of the same id exists; and the account a signup returns
\* has a stored profile with every field empty.
C13_OneToOne ==
    /\ \A id \in Ids :
          /\ IsRow(users[id]) <=> IsRow(infos[id])
          /\ IsRow(users[id]) => users[id].user_id = id /\ infos[id].user_id = id
    /\ \A w \in Workers :
          (pc[w] = "done" /\ call[w].op = "signup" /\ res[w].ok) =>
              /\ res[w].user.info = EmptyInfo
              /\ infos[res[w].user.user_id].info = EmptyInfo

\* an account stands with both rows while a delete of it has removed the
\* profile row inside its transaction and not yet the account row
C13_Witness ==
    \E w \in Workers, id \in Ids :
        /\ IsRow(users[id]) /\ IsRow(infos[id])
        /\ tx[w].active /\ tx[w].id = id /\ tx[w].ist = "del" /\ tx[w].ust = "none"

\* the step in which worker w's get_by_id, update or delete is invoked with an
\* id string that is no identifier: directly on UsersService, or as the
\* handler of the route once the gate has resolved the actor
MalformedIdCall(w, entry) ==
    /\ \A n \in 1..9 : call'[w].idstr # IdToStr(n)
    /\ call'[w].entry = entry
    /\ \/ /\ entry = "service" /\ pc[w] = "idle"
          /\ call'[w].op \in {"get_by_id", "update", "delete"}
       \/ /\ entry = "gate" /\ pc[w] = "gate_i" /\ loc'[w].actor # NoUser
          /\ call'[w].route \in {"get_by_id", "update", "delete"}

\* the call ends in the step that invoked it, with kind, and neither the
\* tables nor a transaction were touched
FailsAtOnce(w, kind) ==
    /\ pc'[w] = "done" /\ res'[w].err = kind
    /\ ~tx'[w].active
    /\ UNCHANGED <<users, infos, nextId>>

Listed(w) == pc[w] = "done" /\ call[w].op = "list" /\ res[w].msg # ConnectionMsg

\* C16: a listing never fails because of its optional string parameters: an
\* absent or unparsable page is taken as 1, an absent or unparsable per_page
\* as 10, an unparsable role as no role filter; the filter applied has
\* page >= 1 and 1 <= per_page <= 100, and the accounts and the total returned
\* are those of the list query and the total query under that one filter.
C16_ListNeverFails ==
    \A w \in Workers :
        Listed(w) =>
            LET query == call[w].query
                filter == call[w].filter
            IN  /\ res[w].ok
                /\ (query.page = None \/ ParseU32(query.page[1]) = None) => filter.page = U32(1)
                /\ (query.per_page = None \/ ParseU32(query.per_page[1]) = None) =>
                       filter.per_page = 10
                /\ (query.role = None \/ RoleFromStr(query.role[1]) = NoRole) =>
                       filter.role = None
                /\ filter.page # U32(0)
                /\ 1 <= filter.per_page /\ filter.per_page <= 100
                /\ res[w].users = ListQuery(filter)
                /\ res[w].total = TotalQuery(filter)

\* the term occurs, letter case aside, in the account's email, handle, first
\* name or last name
TermOccurs(user, term) ==
    LET occurs(field) == field # None /\ contains(to_lowercase(field[1]), to_lowercase(term))
    IN  \/ occurs(Some(user.email))
        \/ occurs(user.info.username)
        \/ occurs(user.info.first_name)
        \/ occurs(user.info.last_name)

\* C17: a listing under a filter with both a role and a search term returns
\* only accounts that have that role and in which the term occurs, letter
\* case aside, in the email, handle, first name or last name.
C17_BothConditions ==
    \A w \in Workers :
        (/\ Listed(w) /\ res[w].ok
         /\ call[w].filter.role # None /\ call[w].filter.search_string # None) =>
            \A k \in 1..Len(res[w].users) :
                /\ res[w].users[k].role = call[w].filter.role[1]
                /\ TermOccurs(res[w].users[k], call[w].filter.search_string[1])

\* C18: the total a listing returns is the number of accounts that satisfy
\* the role and search conditions of the list query, whatever the page; and
\* when the first page is asked for and holds that many accounts, the total
\* is the number of accounts returned.
C18_TotalAgrees ==
    \A w \in Workers :
        (Listed(w) /\ res[w].ok) =>
            /\ res[w].total = Cardinality({id \in Ids : Matches(id, call[w].filter)})
            /\ (call[w].filter.page = U32(1) /\ res[w].total <= call[w].filter.per_page) =>
                   Len(res[w].users) = res[w].total

\* two accounts are stored, the listing asked for a role and a search term,
\* and one account was returned and counted
C18_Witness ==
    \E w \in Workers :
        /\ Listed(w) /\ res[w].ok
        /\ call[w].filter.role # None /\ call[w].filter.search_string # None
        /\ \A id \in Ids : IsRow(users[id])
        /\ res[w].total = 1 /\ Len(res[w].users) = 1

\* C19: a listing returns, newest first, the matching accounts after the
\* first (page - 1) * per_page of them, at most per_page of them; when that
\* many or fewer accounts match, it returns the empty sequence; and it never
\* ends in an error.
C19_PageSlice ==
    \A w \in Workers :
        Listed(w) =>
            LET filter == call[w].filter
                matching == {id \in Ids : Matches(id, filter)}
                skip == Product(filter)
                rest == IF skip.hi > 0 \/ skip.lo >= Cardinality(matching) THEN 0
                        ELSE Cardinality(matching) - skip.lo
                newer(id) == Cardinality({j \in matching :
                                             users[j].created > users[id].created})
            IN  /\ res[w].ok
                /\ Len(res[w].users) = IF rest < filter.per_page THEN rest ELSE filter.per_page
                /\ \A k \in 1..Len(res[w].users) :
                       \E id \in matching :
                           /\ res[w].users[k] = UserFrom(users[id], UserInfoFrom(infos[id]))
                           /\ newer(id) = skip.lo + k - 1

\* the password policy in the words of the claim
PolicyAccepts(password) ==
    LET cs == SeqRange(password)
    IN  /\ Len(password) >= 8 /\ Len(password) <= 64
        /\ cs \cap SeqRange(UpperChars) # {}
        /\ cs \cap SeqRange(LowerChars) # {}
        /\ cs \cap DigitChars # {}
        /\ cs \cap SpecialChars # {}
        /\ cs \cap WhiteChars = {}
        /\ to_lowercase(password) \notin CommonPasswords

\* C21: signup (with a valid email) goes on to create the account exactly
\* when the password has 8 to 64 characters, an uppercase letter, a lowercase
\* letter, a digit and a special character, no white space, and is no denylist
\* entry whatever its letter case; any other password is rejected with a
\* validation failure in the same step, no account being created; so every
\* stored account has a password the policy accepts.
C21_PasswordPolicy ==
    [][/\ \A w \in Workers :
             (pc[w] = "idle" /\ call'[w].op = "signup" /\ IsEmail(call'[w].email)) =>
                 IF PolicyAccepts(call'[w].password)
                 THEN pc'[w] = "begin"
                 ELSE /\ pc'[w] = "done" /\ res'[w].err = "ValidationErrors"
                      /\ UNCHANGED <<users, infos, nextId>>
       /\ \A id \in Ids :
             IsRow(users'[id]) => PolicyAccepts(users'[id].password_hash.digest[2])]_vars

\* the English name of a role
EnglishName(role) ==
    CASE role = "Owner"    -> <<"O","w","n","e","r">>
      [] role = "Admin"    -> <<"A","d","m","i","n">>
      [] role = "Employee" -> <<"E","m","p","l","o","y","e","e">>
      [] OTHER             -> <<"G","u","e","s","t">>

\* the roles a string names, letter case aside, in either language
NamedRoles(str) ==
    {r \in Roles : to_lowercase(str) \in {to_lowercase(RoleName(r)), to_lowercase(EnglishName(r))}}

\* C22: a signup with a valid email and password is never refused for its
\* role string; the account it creates has the role the string names, in
\* either language and any letter case, and the role Guest when the string is
\* absent or names no role.
C22_RoleResolution ==
    \A w \in Workers :
        (call[w].op = "signup" /\ pc[w] # "idle") =>
            LET named == IF call[w].rolestr = None THEN {} ELSE NamedRoles(call[w].rolestr[1])
                role == IF named = {} THEN "Guest" ELSE CHOOSE r \in named : TRUE
            IN  /\ res[w].err # "InvalidUserRole"
                /\ call[w].role = role
                /\ (pc[w] = "done" /\ res[w].ok) =>
                       /\ res[w].user.role = role
                       /\ users[res[w].user.user_id].role = RoleName(role)

\* a signup with a role string that names no role has created a Guest
C22_Witness ==
    \E w \in Workers :
        /\ pc[w] = "done" /\ call[w].op = "signup" /\ res[w].ok
        /\ call[w].rolestr = Some(<<"b","o","s","s">>)
        /\ users[res[w].user.user_id].role = RoleName("Guest")

\* C23: every stored account has updated >= created; created never changes
\* while the account exists; and a successful update stores and returns an
\* updated time strictly later than the one the account had before it.
C23_Timestamps ==
    [][/\ \A id \in Ids :
             /\ IsRow(users'[id]) => users'[id].updated >= users'[id].created
             /\ (IsRow(users[id]) /\ IsRow(users'[id])) => users'[id].created = users[id].created
       /\ \A w \in Workers :
             (call[w].op = "update" /\ pc[w] # "done" /\ pc'[w] = "done" /\ res'[w].ok) =>
                 /\ res'[w].user.updated = users'[call[w].id].updated
                 /\ users'[call[w].id].updated > users[call[w].id].updated]_vars

\* C24: a successful update of account id stores the email, role and profile
\* fields it was given and changes nothing else: the account's id, credential
\* hash and created time, the profile's owner and created time, and every
\* other account and profile stay as they were; an update that fails, and in
\* particular one that finds no row of its id (EntryNotFound), changes nothing.
C24_UpdateFrame ==
    [][\A w \in Workers :
          LET id == call[w].id
          IN  /\ (call[w].op = "update" /\ pc[w] # "done" /\ pc'[w] = "done" /\ res'[w].ok) =>
                     /\ \A j \in Ids \ {id} : users'[j] = users[j] /\ infos'[j] = infos[j]
                     /\ IsRow(users[id]) /\ IsRow(infos[id])
                     /\ users'[id] = [users[id] EXCEPT !.email = call[w].upd.email,
                                                       !.role = RoleName(call[w].upd.role),
                                                       !.updated = users'[id].updated]
                     /\ infos'[id] = [infos[id] EXCEPT !.info = call[w].upd.info,
                                                       !.updated = infos'[id].updated]
              /\ (call[w].op = "update" /\ pc[w] # "done" /\ pc'[w] = "done" /\ ~res'[w].ok) =>
                     UNCHANGED <<users, infos>>
              /\ (/\ call[w].op = "update" /\ pc[w] = "upd_i" /\ pc'[w] # pc[w]
                  /\ ~IsRow(users[id]) /\ ~IsRow(infos[id])) =>
                     /\ pc'[w] = "done"
                     /\ res'[w].err = "EntryNotFound" \/ res'[w].msg = ConnectionMsg
                     /\ UNCHANGED <<users, infos>>]_vars

\* an update has changed the email, role and profile of one of two stored
\* accounts
C24_Witness ==
    \E w \in Workers :
        /\ pc[w] = "done" /\ call[w].op = "update" /\ res[w].ok
        /\ \A id \in Ids : IsRow(users[id])
        /\ infos[call[w].id].info = JohnInfo
        /\ users[call[w].id].role = RoleName("Admin")

\* the rows of the bootstrap directory
Registered(dir) == {i \in TgIds : dir[i].present}

\* C25: a registration that adds an identity to the directory gives it the
\* role Admin when the directory was empty before the insert and the role
\* Guest otherwise, whatever role updates and deletions ran before
C25_Bootstrap ==
    [][\A w \in Workers :
          LET i == bootstrap.req[w].user_id IN
          (bootstrap.at[w] = "insert" /\ bootstrap'.at[w] = "done" /\ bootstrap'.out[w].ok) =>
              bootstrap'.dir[i].user_role =
                  IF Registered(bootstrap.dir) = {} THEN "Admin" ELSE "Guest"]_vars

\* C26: a registration of an identity that is in the directory when the
\* registration answers succeeds with the stored role and leaves the
\* directory as it was
C26_Idempotent ==
    [][\A w \in Workers :
          LET i == bootstrap.req[w].user_id IN
          (bootstrap.at[w] \in {"start_get", "get", "insert"} /\ bootstrap'.at[w] = "done"
             /\ bootstrap.dir[i].present) =>
              /\ bootstrap'.out[w] = BootOk(bootstrap.dir[i].user_role)
              /\ bootstrap'.dir = bootstrap.dir]_vars

\* C27: when PgStorage::list runs its query, the multiplication
\* (page - 1) * per_page has not overflowed 32 bits: the handler does not
\* panic and the OFFSET it sends is the exact product
C27_OffsetExact ==
    [][\A w \in Workers :
          (pc[w] = "list" /\ pc'[w] # "list") =>
              /\ res'[w] # Panic
              /\ Offset(call[w].filter) = Product(call[w].filter)]_vars

\* C28: the account a successful signin returns is one whose own credential
\* hash verifies the password the caller supplied
C28_VerifiedAccount ==
    [][\A w \in Workers :
          (call[w].op = "signin" /\ pc[w] # "done" /\ pc'[w] = "done" /\ res'[w].ok) =>
              verify_password(res'[w].user.password_hash, call[w].password).ok]_vars

\* a stored account whose role is Owner or Admin
PrivilegedRow(row) == IsRow(row) /\ row.role \in {RoleName("Owner"), RoleName("Admin")}

TokenOfDeleted(token) ==
    /\ token \in tokens
    /\ parse_str(token.sub) \in Ids
    /\ parse_str(token.sub) < nextId
    /\ ~IsRow(users[parse_str(token.sub)])

====
